---- MODULE Spec2Model ----
(***************************************************************************)
(* The similarity pipeline of wordcrack_backend.                           *)
(*                                                                         *)
(*   build_similar_words.py  the batch job: read words + embeddings,       *)
(*                           normalise, N x N cosine matrix, top-K per     *)
(*                           word, TRUNCATE similar_words, chunked upsert  *)
(*                           with one commit per chunk.                    *)
(*   app.py similar_db       the online query: vector search with          *)
(*                           limit top_k + 1, drop the queried word,       *)
(*                           stop once top_k results are collected.        *)
(*                                                                         *)
(* `table` is the COMMITTED content of similar_words, as rows              *)
(* <<base_word, similar_word, score>> (id and created_at carry no          *)
(* information the properties below speak about).  autocommit is off, so a *)
(* chunk becomes visible at its db.commit(); TRUNCATE is DDL and commits   *)
(* implicitly.  A process that dies before a commit leaves the committed   *)
(* content as it was.                                                      *)
(*                                                                         *)
(* Embeddings are drawn from vectors whose float32 arithmetic is exact     *)
(* (axis-parallel, norms 0, 1, 2), so a cosine is one of -1, 0, 1 or NaN.  *)
(***************************************************************************)
EXTENDS Integers, Sequences, FiniteSets, TLC

\* ---------------------------------------------------------------- bounds
MaxN == 3
MaxTopK == 2
MaxBatch == 2
MaxQueryK == 2

\* ------------------------------------------------------------ float model
\* The value numpy yields for 0.0 / 0.0; every other value is an integer.
NaN == 99

IsNaN(x) == x = NaN

\* fill_diagonal(sim_matrix, -1.0)
DiagValue == -1

\* float32 division as in emb_matrix / norms: 0/0 is NaN (a RuntimeWarning,
\* not an exception).  x/0 with x # 0 cannot occur: a zero norm means a zero row.
FDiv(x, n) == IF n = 0 THEN NaN ELSE x \div n

FMul(a, b) == IF IsNaN(a) \/ IsNaN(b) THEN NaN ELSE a * b

FAdd(a, b) == IF IsNaN(a) \/ IsNaN(b) THEN NaN ELSE a + b

Sqrt(n) == CHOOSE r \in 0..n : r * r = n

RECURSIVE SumSq(_, _)
SumSq(v, d) == IF d = 0 THEN 0 ELSE SumSq(v, d - 1) + v[d] * v[d]

\* np.linalg.norm(row)
Norm(v) == Sqrt(SumSq(v, Len(v)))

\* one row of emb_matrix / norms
Normalize(v) == [d \in 1..Len(v) |-> FDiv(v[d], Norm(v))]

RECURSIVE DotUpTo(_, _, _)
DotUpTo(u, v, d) == IF d = 0 THEN 0 ELSE FAdd(DotUpTo(u, v, d - 1), FMul(u[d], v[d]))

\* one entry of np.dot(emb_norm, emb_norm.T)
Dot(u, v) == DotUpTo(u, v, Len(u))

\* np.dot followed by np.fill_diagonal(sim_matrix, -1.0)
SimMatrix(en) ==
  [a \in 1..Len(en) |-> [b \in 1..Len(en) |->
      IF a = b THEN DiagValue ELSE Dot(en[a], en[b])]]

Range(s) == {s[k] : k \in DOMAIN s}

\* ------------------------------------------------------------- selection
\* -s1 < -s2 in numpy's sort order for floats, where NaN sorts after every number.
Before(s1, s2) ==
  IF IsNaN(s1) THEN FALSE ELSE IF IsNaN(s2) THEN TRUE ELSE s1 > s2

Arrangements(S, k) ==
  {p \in [1..k -> S] : \A a, b \in 1..k : a # b => p[a] # p[b]}

\* p lists indices by non-increasing similarity
SortedDesc(sims, p) ==
  \A a, b \in DOMAIN p : a < b => ~Before(sims[p[b]], sims[p[a]])

\* np.argsort(-sims): every index, by non-increasing similarity.  The default
\* kind is not stable: the order of equal values is not specified.
ArgSort(sims) ==
  {p \in Arrangements(DOMAIN sims, Len(sims)) : SortedDesc(sims, p)}

\* np.argpartition(-sims, k)[:k] then reordered by argsort of the selected
\* values: k indices none of which is beaten by an index left out, by
\* non-increasing similarity.  Which of several equal values is taken, and
\* their order, is not specified.
ArgPartitionSorted(sims, k) ==
  {p \in Arrangements(DOMAIN sims, k) :
      /\ \A b \in (DOMAIN sims) \ Range(p) : \A a \in Range(p) : ~Before(sims[b], sims[a])
      /\ SortedDesc(sims, p)}

\* lines 135-140
TopIdx(sims, k) ==
  IF k >= Len(sims) THEN ArgSort(sims) ELSE ArgPartitionSorted(sims, k)

\* ------------------------------------------------------------- the table
RowsFor(T, w) == {r \in T : r[1] = w}

\* INSERT ... ON DUPLICATE KEY UPDATE score = VALUES(score), under
\* UNIQUE KEY uq_base_sim (base_word, similar_word)
Upsert(T, r) == {x \in T : ~(x[1] = r[1] /\ x[2] = r[2])} \cup {r}

RECURSIVE ExecuteManyUpTo(_, _, _)
ExecuteManyUpTo(T, batch, k) ==
  IF k = 0 THEN T ELSE Upsert(ExecuteManyUpTo(T, batch, k - 1), batch[k])

\* cursor.executemany(INSERT ..., batch_values): the rows in order
ExecuteMany(T, batch) == ExecuteManyUpTo(T, batch, Len(batch))

\* a NaN score cannot be sent to MySQL: the statement raises
HasNaN(batch) == \E k \in DOMAIN batch : IsNaN(batch[k][3])

\* ------------------------------------------------------------------ state
VARIABLES
  rows,          \* words JOIN word_embeddings ORDER BY w.id: [word, embedding]
  TOP_K,         \* neighbours kept per word
  BATCH_SIZE,    \* rows collected before a chunk is written
  table,         \* committed rows of similar_words
  prior,         \* the committed rows when the current run started
  pc,            \* where the batch script is
  words,         \* words[k]: surface form of the k-th loaded entity
  emb_matrix,    \* the loaded vectors
  N,             \* number of loaded entities
  sim_matrix,    \* cosine matrix with the diagonal overwritten
  i,             \* loop index of the write phase (1-based)
  batch_values,  \* rows collected and not yet written
  top_idx,       \* the indices selected in the latest iteration
  base,          \* the entity top_idx was selected for (0: none yet)
  list_rows,     \* list_rows[k]: the rows entity k contributed ({}: none yet)
  run,           \* 1: first run, 2: second run over the same input
  first_result,  \* the table the first run left
  qword,         \* concurrent reader: -1 nothing read, 0 whole table, w: rows of w
  qrows,         \* concurrent reader: what it read
  q_pc,          \* similar_db: where the handler is
  word,          \* similar_db: payload word, stripped
  top_k,         \* similar_db: payload top_k
  collection,    \* similar_db: words of words_col that carry an embedding
  docs,          \* similar_db: what the vector index returned, as words
  results,       \* similar_db: the list being built
  d              \* similar_db: index of the next doc of the loop

batchVars ==
  <<rows, TOP_K, BATCH_SIZE, table, prior, pc, words, emb_matrix, N, sim_matrix,
    i, batch_values, top_idx, base, list_rows, run, first_result>>

readerVars == <<qword, qrows>>

queryVars == <<q_pc, word, top_k, collection, docs, results, d>>

vars == <<batchVars, readerVars, queryVars>>

\* ------------------------------------------------------------------ input
\* Stored embeddings: float32-exact vectors, a zero vector, and one of another
\* dimension (np.vstack raises on it unless every row has it).
Vecs == {<<2, 0>>, <<0, 1>>, <<-1, 0>>, <<0, 0>>, <<1>>}

\* Surface forms are numbered; at most one of them is shared, by two
\* entities.  Numbering them in order of first appearance removes renamed
\* copies of the same corpus.
FirstAppearance(ws) ==
  /\ \A k \in DOMAIN ws : \A v \in 1..(ws[k] - 1) : \E j \in 1..(k - 1) : ws[j] = v
  /\ Cardinality(Range(ws)) >= Len(ws) - 1

\* A result set left by an earlier run.
OldTable == {<<1, 2, 0>>, <<2, 1, 0>>}

Running == {"read", "load", "compute", "truncate", "loop"}

BatchInit ==
  /\ \E n \in 0..MaxN : \E ws \in [1..n -> 1..MaxN] : \E es \in [1..n -> Vecs] :
        /\ FirstAppearance(ws)
        /\ rows = [k \in 1..n |-> [word |-> ws[k], embedding |-> es[k]]]
  /\ TOP_K \in 1..MaxTopK
  /\ BATCH_SIZE \in 1..MaxBatch
  /\ table = OldTable
  /\ prior = table
  /\ pc = "read"
  /\ words = <<>>
  /\ emb_matrix = <<>>
  /\ N = 0
  /\ sim_matrix = <<>>
  /\ i = 0
  /\ batch_values = <<>>
  /\ top_idx = <<>>
  /\ base = 0
  /\ list_rows = [k \in 1..Len(rows) |-> {}]
  /\ run = 1
  /\ first_result = {}

ReaderInit == qword = -1 /\ qrows = {}

QueryOff ==
  /\ q_pc = "off" /\ word = 0 /\ top_k = 0 /\ collection = {}
  /\ docs = <<>> /\ results = <<>> /\ d = 0

Init == BatchInit /\ ReaderInit /\ QueryOff

\* ------------------------------------------------------------ batch steps
\* lines 75-86: SELECT ... ORDER BY w.id; no rows: close and SystemExit
Read ==
  /\ pc = "read"
  /\ pc' = IF Len(rows) = 0 THEN "nodata" ELSE "load"
  /\ UNCHANGED <<rows, TOP_K, BATCH_SIZE, table, prior, words, emb_matrix, N,
                 sim_matrix, i, batch_values, top_idx, base, list_rows, run, first_result>>
  /\ UNCHANGED <<readerVars, queryVars>>

\* np.vstack(emb_list) raises ValueError unless all rows have one dimension
SameShape(rs) == \A a, b \in DOMAIN rs : Len(rs[a].embedding) = Len(rs[b].embedding)

\* lines 89-100: words, emb_list, np.vstack
Load ==
  /\ pc = "load"
  /\ words' = [k \in DOMAIN rows |-> rows[k].word]
  /\ IF SameShape(rows)
       THEN /\ emb_matrix' = [k \in DOMAIN rows |-> rows[k].embedding]
            /\ N' = Len(rows)
            /\ pc' = "compute"
       ELSE /\ pc' = "failed"
            /\ UNCHANGED <<emb_matrix, N>>
  /\ UNCHANGED <<rows, TOP_K, BATCH_SIZE, table, prior, sim_matrix, i,
                 batch_values, top_idx, base, list_rows, run, first_result>>
  /\ UNCHANGED <<readerVars, queryVars>>

\* lines 106-115: norms, emb_norm, np.dot, np.fill_diagonal.  No check of the norms.
Compute ==
  /\ pc = "compute"
  /\ sim_matrix' = SimMatrix([k \in 1..N |-> Normalize(emb_matrix[k])])
  /\ pc' = "truncate"
  /\ UNCHANGED <<rows, TOP_K, BATCH_SIZE, table, prior, words, emb_matrix, N, i,
                 batch_values, top_idx, base, list_rows, run, first_result>>
  /\ UNCHANGED <<readerVars, queryVars>>

\* lines 122-130: TRUNCATE TABLE similar_words; commit; batch_values = []
Truncate ==
  /\ pc = "truncate"
  /\ table' = {}
  /\ batch_values' = <<>>
  /\ i' = 1
  /\ pc' = "loop"
  /\ UNCHANGED <<rows, TOP_K, BATCH_SIZE, prior, words, emb_matrix, N, sim_matrix,
                 top_idx, base, list_rows, run, first_result>>
  /\ UNCHANGED <<readerVars, queryVars>>

\* lines 142-147: one row per selected index
Triples(k, t) ==
  [j \in DOMAIN t |-> <<words[k], words[t[j]], sim_matrix[k][t[j]]>>]

\* the rows entity k contributes when t is selected for it
ListRows(k, t) == ExecuteMany({}, Triples(k, t))

\* a selection that is drawn afresh on every call (a randomised pivot)
ChoicesFresh(k) == TopIdx(sim_matrix[k], TOP_K)

\* lines 135-140 for entity k.  numpy is a function of its input: a second
\* run over the same matrix selects what the first run selected, so entity k
\* contributes the rows it contributed before.
Choices(k) ==
  IF list_rows[k] # {}
    THEN {t \in TopIdx(sim_matrix[k], TOP_K) : ListRows(k, t) = list_rows[k]}
    ELSE TopIdx(sim_matrix[k], TOP_K)

\* line 150
FlushDue(batch) == Len(batch) >= BATCH_SIZE

\* lines 132-163: one iteration of the loop over the entities.  The chunk is
\* written only after the inner loop; the write can fail (a NaN score, the
\* connection), which ends the script with the chunk uncommitted.
LoopStep ==
  /\ pc = "loop"
  /\ i <= N
  /\ \E t \in Choices(i) :
       LET batch == batch_values \o Triples(i, t) IN
       /\ top_idx' = t
       /\ base' = i
       /\ list_rows' = [list_rows EXCEPT ![i] = ListRows(i, t)]
       /\ IF FlushDue(batch)
            THEN \E ok \in BOOLEAN :
                   IF ok /\ ~HasNaN(batch)
                     THEN /\ table' = ExecuteMany(table, batch)
                          /\ batch_values' = <<>>
                          /\ i' = i + 1
                          /\ pc' = "loop"
                     ELSE /\ pc' = "failed"
                          /\ batch_values' = batch
                          /\ UNCHANGED <<table, i>>
            ELSE /\ batch_values' = batch
                 /\ i' = i + 1
                 /\ UNCHANGED <<table, pc>>
  /\ UNCHANGED <<rows, TOP_K, BATCH_SIZE, prior, words, emb_matrix, N, sim_matrix,
                 run, first_result>>
  /\ UNCHANGED <<readerVars, queryVars>>

\* the chunk condition of line 150 repeated for the last rows
FinalFlushDueAsChunk(batch) == Len(batch) >= BATCH_SIZE

\* line 166
FinalFlushDue(batch) == batch # <<>>

\* lines 165-181: write what is left, close
FinalFlush ==
  /\ pc = "loop"
  /\ i > N
  /\ IF FinalFlushDue(batch_values)
       THEN \E ok \in BOOLEAN :
              IF ok /\ ~HasNaN(batch_values)
                THEN /\ table' = ExecuteMany(table, batch_values)
                     /\ pc' = "done"
                ELSE /\ pc' = "failed"
                     /\ UNCHANGED table
       ELSE /\ pc' = "done"
            /\ UNCHANGED table
  /\ UNCHANGED <<rows, TOP_K, BATCH_SIZE, prior, words, emb_matrix, N, sim_matrix,
                 i, batch_values, top_idx, base, list_rows, run, first_result>>
  /\ UNCHANGED <<readerVars, queryVars>>

\* the process is killed: nothing uncommitted survives
Kill ==
  /\ pc \in Running
  /\ pc' = "killed"
  /\ UNCHANGED <<rows, TOP_K, BATCH_SIZE, table, prior, words, emb_matrix, N,
                 sim_matrix, i, batch_values, top_idx, base, list_rows, run, first_result>>
  /\ UNCHANGED <<readerVars, queryVars>>

\* the script is started again on the unchanged words / word_embeddings
Rerun ==
  /\ pc = "done"
  /\ run = 1
  /\ run' = 2
  /\ first_result' = table
  /\ prior' = table
  /\ pc' = "read"
  /\ words' = <<>>
  /\ emb_matrix' = <<>>
  /\ N' = 0
  /\ sim_matrix' = <<>>
  /\ i' = 0
  /\ batch_values' = <<>>
  /\ top_idx' = <<>>
  /\ base' = 0
  /\ UNCHANGED <<rows, TOP_K, BATCH_SIZE, table, list_rows>>
  /\ UNCHANGED <<readerVars, queryVars>>

\* another connection reads committed rows: the whole table (w = 0) or the
\* rows of one base word
Query ==
  /\ \E w \in 0..MaxN :
       /\ qword' = w
       /\ qrows' = IF w = 0 THEN table ELSE RowsFor(table, w)
  /\ UNCHANGED <<batchVars, queryVars>>

BatchStep == Read \/ Load \/ Compute \/ Truncate \/ LoopStep \/ FinalFlush

Next == BatchStep \/ Kill \/ Query

Spec == Init /\ [][Next]_vars

\* the batch alone, with no reader beside it
NextBatch == BatchStep \/ Kill

SpecBatch == Init /\ [][NextBatch]_vars

NextTwice == BatchStep \/ Rerun

SpecTwice == Init /\ [][NextTwice]_vars

\* ------------------------------------------------------- app.py similar_db
\* The batch script is not part of a similar_db request.
BatchOff ==
  /\ rows = <<>> /\ TOP_K = 1 /\ BATCH_SIZE = 1 /\ table = {} /\ prior = {}
  /\ pc = "off" /\ words = <<>> /\ emb_matrix = <<>> /\ N = 0 /\ sim_matrix = <<>>
  /\ i = 0 /\ batch_values = <<>> /\ top_idx = <<>> /\ base = 0 /\ list_rows = <<>>
  /\ run = 1 /\ first_result = {}

\* A request: the stripped payload word (0: empty) and top_k, against a
\* collection in which some words carry an embedding.
QueryInit ==
  /\ BatchOff
  /\ ReaderInit
  /\ q_pc = "start"
  /\ word \in 0..MaxN
  /\ top_k \in 0..MaxQueryK
  /\ collection \in SUBSET (1..MaxN)
  /\ docs = <<>>
  /\ results = <<>>
  /\ d = 0

\* lines 124-135: empty word, unknown word or no embedding: []
QLookup ==
  /\ q_pc = "start"
  /\ q_pc' = IF word = 0 \/ word \notin collection THEN "returned" ELSE "search"
  /\ UNCHANGED <<word, top_k, collection, docs, results, d>>
  /\ UNCHANGED <<batchVars, readerVars>>

\* what $vectorSearch may return under "limit": top_k + 1: at most that many
\* documents that carry an embedding, in the index's order, the queried word
\* among them or not
IndexResults(limit) ==
  UNION {[1..len -> collection] : len \in 0..limit}

\* lines 137-159: the aggregate, results = []
QSearch ==
  /\ q_pc = "search"
  /\ docs' \in IndexResults(top_k + 1)
  /\ results' = <<>>
  /\ d' = 1
  /\ q_pc' = "loop"
  /\ UNCHANGED <<word, top_k, collection>>
  /\ UNCHANGED <<batchVars, readerVars>>

\* line 173, evaluated after the append
BreakDue(res) == Len(res) >= top_k

\* lines 161-174: one iteration of the loop over docs
QIterate ==
  /\ q_pc = "loop"
  /\ d <= Len(docs)
  /\ IF docs[d] = word
       THEN /\ d' = d + 1
            /\ UNCHANGED <<results, q_pc>>
       ELSE /\ results' = Append(results, docs[d])
            /\ IF BreakDue(results')
                 THEN q_pc' = "returned" /\ UNCHANGED d
                 ELSE d' = d + 1 /\ UNCHANGED q_pc
  /\ UNCHANGED <<word, top_k, collection, docs>>
  /\ UNCHANGED <<batchVars, readerVars>>

\* line 176, reached when the loop runs out of docs
QReturn ==
  /\ q_pc = "loop"
  /\ d > Len(docs)
  /\ q_pc' = "returned"
  /\ UNCHANGED <<word, top_k, collection, docs, results, d>>
  /\ UNCHANGED <<batchVars, readerVars>>

NextQuery == QLookup \/ QSearch \/ QIterate \/ QReturn

SpecQuery == QueryInit /\ [][NextQuery]_vars

\* ----------------------------------------------------------- properties
Stopped == {"nodata", "failed", "killed"}

\* the run has executed its TRUNCATE
Truncated == i >= 1

\* C1: every committed state of similar_words a concurrent reader observes
\* during a rebuild is the complete prior result set or the complete new one.
\* Stated at the end of the run, over what a whole-table read returned.
C1_AtomicReplace ==
  (pc = "done" /\ qword = 0) => qrows \in {prior, table}

\* C2: a run that fails or is aborted at any step leaves the persisted set
\* exactly the previous result set.
C2_FailedRunKeepsPrior ==
  pc \in Stopped => table = prior

\* C3: the neighbour list computed for entity k never contains k itself.
C3_NoSelfNeighbor ==
  base \notin Range(top_idx)

Others(k) == (1..N) \ {k}

\* C4: K is clamped: with K >= N-1 every list is exactly the N-1 other
\* entities, and with K < N-1 every list has exactly K entries.
C4_KClamped ==
  base # 0 =>
     IF TOP_K >= N - 1
       THEN Len(top_idx) = N - 1 /\ Range(top_idx) = Others(base)
       ELSE Len(top_idx) = TOP_K

\* a ranks before b for base k under (score descending, entity id ascending)
RanksBefore(k, a, b) ==
  \/ Before(sim_matrix[k][a], sim_matrix[k][b])
  \/ (~Before(sim_matrix[k][b], sim_matrix[k][a]) /\ a < b)

Min(a, b) == IF a < b THEN a ELSE b

\* the first K of the other entities under that ordering
IdealTopK(k) ==
  [r \in 1..Min(TOP_K, N - 1) |->
     CHOOSE a \in Others(k) :
        Cardinality({b \in Others(k) : RanksBefore(k, b, a)}) = r - 1]

RECURSIVE Without(_, _)
Without(s, x) ==
  IF s = <<>> THEN <<>>
  ELSE IF Head(s) = x THEN Without(Tail(s), x)
  ELSE <<Head(s)>> \o Without(Tail(s), x)

\* the latest list holds other entities only, and its row no NaN similarity
PlainList ==
  /\ base \notin Range(top_idx)
  /\ \A a \in Others(base) : ~IsNaN(sim_matrix[base][a])

\* C5: the selection is deterministic under ties: the neighbours selected for
\* a base entity are exactly the first K entries of the ordering by (score
\* descending, entity id ascending).  Stated for the lists that hold other
\* entities only and no NaN similarity, so that what is compared is the order
\* and the choice among equal scores.
C5_TieBreakById ==
  (base # 0 /\ PlainList) => top_idx = IdealTopK(base)

C7_NoTornRead ==
  (pc = "done" /\ qword >= 1) =>
     qrows \in {RowsFor(prior, qword), RowsFor(table, qword)}

\* C8: a loaded row of zero norm makes the run fail before any similarity is
\* computed and before similar_words is touched.
C8_RejectsDegenerate ==
  (\E k \in DOMAIN emb_matrix : Norm(emb_matrix[k]) = 0) =>
     /\ pc \in {"compute", "failed", "killed"}
     /\ sim_matrix = <<>>
     /\ table = prior

\* the index results without the queried word
NonSelf(ds) == Without(ds, word)

Take(s, n) == SubSeq(s, 1, Min(n, Len(s)))

\* C9: for a known word with an embedding and any top_k >= 0, the returned
\* list has at most top_k entries, none of them the queried word, and they are
\* the first top_k non-self index results in the index's order.
C9_FindSimilar ==
  (q_pc = "returned" /\ word \in collection) =>
     /\ Len(results) <= top_k
     /\ word \notin Range(results)
     /\ results = Take(NonSelf(docs), top_k)

UniqueWord(k) == \A j \in 1..N : j # k => words[j] # words[k]

\* the rows of entities 1..k, written in order
RECURSIVE AllRows(_)
AllRows(k) ==
  IF k = 0 THEN {}
  ELSE {x \in AllRows(k - 1) :
          \A r \in list_rows[k] : ~(x[1] = r[1] /\ x[2] = r[2])} \cup list_rows[k]

\* C10: in every committed state after the TRUNCATE, an entity with a surface
\* form of its own has none of its rows or all of them, the entities that have
\* theirs are a prefix of the corpus in id order, and after the final flush the
\* table holds exactly the computed triples.
C10_ChunkInvariant ==
  Truncated =>
    /\ \E p \in 0..(i - 1) :
         \A k \in 1..N : UniqueWord(k) =>
            RowsFor(table, words[k]) = IF k <= p THEN list_rows[k] ELSE {}
    /\ pc = "done" =>
         /\ table = AllRows(N)
         /\ (\A k \in 1..N : UniqueWord(k)) => table = UNION {list_rows[k] : k \in 1..N}

\* C10 witness: a chunk is committed and rows of later entities are collected
\* but not yet written.
C10_Witness ==
  /\ pc = "loop" /\ table # {} /\ batch_values # <<>>
  /\ \A k \in 1..N : UniqueWord(k)

====
